---------------------------- MODULE Spec2Model ----------------------------
(***************************************************************************)
(* A model of src/vector_store.hpp: Vector, Keyspace and VectorStore, and  *)
(* the threads that call into them.                                        *)
(*                                                                         *)
(* C++ indices are 0-based and are kept 0-based in every argument, local    *)
(* and result; the element at C++ index i of a std::vector is element i+1  *)
(* of the TLA+ sequence that models it.                                    *)
(*                                                                         *)
(* A double is modelled by an integer: components are small integers, and  *)
(* std::sqrt is the fixed-point square root Sqrt, floor(Scale * sqrt(n)),   *)
(* which like IEEE sqrt is monotone and, on the sums the model reaches,    *)
(* injective.                                                              *)
(***************************************************************************)
EXTENDS Naturals, Integers, Sequences, FiniteSets, TLC

\* ------------------------------------------------------------- bounds
\* removeVector is called with an index in 0..MaxIndex.
MaxIndex == 2
\* Calls made in one behaviour, by all threads together.
MaxCalls == 3
\* Calls made in one behaviour of the VectorStore specification, on the store and on
\* its Keyspaces, by all threads together.
MaxStoreCalls == 3
\* The Keyspace of the query specification holds at most MaxStored vectors.
MaxStored == 3
\* The VectorStore of the registry specification holds at most MaxRegistered entries
\* at the start.
MaxRegistered == 3
\* Fixed-point scale of Sqrt.
Scale == 100

\* The threads calling into the same objects.
Threads == {1, 2}
\* The dimensions vectors and Keyspaces are built with.
Dims == {1, 2}
\* batchAddVectors is called with this many vectors.
BatchLens == {0, 1, 2}
\* The values assigned to the components of a vector.
Components == {0, 1}
\* The Keyspace objects that can be constructed, by identity; K0 is the one the
\* Keyspace specifications are about.
K0 == 1
KeyspaceIds == {1, 2, 3}
\* The objects the threads sharing a VectorStore construct.
StoreObjects == {1, 2}
\* The names Keyspaces are given and looked up by.
Names == {"a", "b"}
NoName == ""
\* std::mutex: the owner, or NoThread when unlocked.
NoThread == 0

\* ------------------------------------------------------------- Vector
\* Vector(dim): dimension(dim), data resized to dim zeros.
Vector(dim) == [dimension |-> dim, data |-> [i \in 1 .. dim |-> 0]]

\* Every vector a caller can build: Vector(d) followed by assignments v[i] = c.
AllVectors ==
  UNION {[dimension : {d}, data : [1 .. d -> Components]] : d \in Dims}

\* The vectors the threads of the concurrent specification pass: of every dimension,
\* with all components equal.
SomeVectors == {v \in AllVectors : \A i \in 1 .. v.dimension : v.data[i] = v.data[1]}

getDimension(v) == v.dimension

\* The loop of euclideanDistance: sum += diff * diff, over i < dimension.
\* A faulty variant: the difference is not squared.
SignedDiff(x, y) == x - y

\* diff = data[i] - other.data[i]; diff * diff (l.53-54).
SquaredDiff(x, y) == (x - y) * (x - y)

RECURSIVE SumSq(_, _, _)
SumSq(a, b, n) ==
  IF n = 0 THEN 0
  ELSE SumSq(a, b, n - 1) + SquaredDiff(a.data[n], b.data[n])

\* std::sqrt in fixed point: the largest r with r*r <= n * Scale^2.
RECURSIVE SqrtSearch(_, _, _)
SqrtSearch(n, lo, hi) ==
  IF lo >= hi THEN lo
  ELSE LET mid == (lo + hi + 1) \div 2
       IN  IF mid * mid <= n * Scale * Scale
           THEN SqrtSearch(n, mid, hi)
           ELSE SqrtSearch(n, lo, mid - 1)

Sqrt(n) == SqrtSearch(n, 0, (n + 1) * Scale)

\* euclideanDistance; defined where the dimensions agree (the throw is in the callers).
euclideanDistance(a, b) == Sqrt(SumSq(a, b, a.dimension))

\* A faulty variant: only an other with too few components is refused.
DiffersShorter(a, b) == a.dimension > b.dimension

\* The check of the three metrics (l.47, l.61, l.83): dimension != other.dimension.
Differs(a, b) == a.dimension # b.dimension

\* The loop of cosineSimilarity (l.69-73), for each of its three sums: the sum of
\* a.data[i] * b.data[i] over i < n.
RECURSIVE Dot(_, _, _)
Dot(a, b, n) ==
  IF n = 0 THEN 0 ELSE Dot(a, b, n - 1) + a.data[n] * b.data[n]

\* std::abs.
Abs(x) == IF x < 0 THEN -x ELSE x

\* The loop of manhattanDistance (l.87-89).
RECURSIVE SumAbs(_, _, _)
SumAbs(a, b, n) ==
  IF n = 0 THEN 0 ELSE SumAbs(a, b, n - 1) + Abs(a.data[n] - b.data[n])

\* cosineSimilarity past its check (l.65-79), in units of 1/Scale: 0.0 when the
\* magnitude is 0, else dotProduct / magnitude.
cosineSimilarity(a, b) ==
  LET dotProduct == Dot(a, b, a.dimension)
      magnitude1 == Dot(a, a, a.dimension)
      magnitude2 == Dot(b, b, a.dimension)
      magnitude == Sqrt(magnitude1 * magnitude2)
  IN  IF magnitude = 0 THEN 0 ELSE (dotProduct * Scale * Scale) \div magnitude

\* manhattanDistance past its check (l.86-90), in units of 1/Scale.
manhattanDistance(a, b) == Scale * SumAbs(a, b, a.dimension)

\* The metrics of Vector.
Metrics == {"euclideanDistance", "cosineSimilarity", "manhattanDistance"}

\* ------------------------------------------------------------- state
VARIABLES
  \* Keyspace objects, by object identity
  vectors,        \* Keyspace::vectors
  dimension,      \* Keyspace::dimension
  mtx,            \* Keyspace::mtx: the owning thread or NoThread
  \* threads
  pc,             \* where each thread is in the call it is making
  ks,             \* the Keyspace the call is on
  vec,            \* addVector's vec, the searches' query
  vecs,           \* batchAddVectors' vectors
  index,          \* removeVector's index; the loop variable (i, or the batch position)
  endp,           \* push_back: the end position it read
  nearest_idx,    \* findNearestNeighbor's local
  min_distance,   \* findNearestNeighbor's local
  status,         \* how the thread's last call ended
  ret,            \* what the thread's last call returned (a size or an index)
  calls,          \* calls made so far, by all threads
  \* Keyspace objects, continued
  keyspace_name,  \* Keyspace::keyspace_name
  kstate,         \* lifetime: "unborn", "alive" (constructed) or "destroyed"
  \* the VectorStore
  keyspaces,      \* VectorStore::keyspaces: the shared_ptrs, as the objects they own
  capacity,       \* capacity of the buffer of keyspaces
  store_mtx,      \* VectorStore::mtx: the owning thread or NoThread
  \* threads, continued
  held,           \* the Keyspaces each thread holds a shared_ptr to
  name,           \* removeKeyspace's and getKeyspace's name
  bufcap,         \* getKeyspace: the capacity of the buffer its iterators point into
  scalls,         \* calls on the VectorStore made so far, by all threads
  results,        \* findNeighborsAboveThreshold's results, and the list it returned
  threshold,      \* findNeighborsAboveThreshold's threshold
  va, vb,         \* two Vector objects of the caller: this and other of a metric
  \* history
  pre,            \* what a mutator found when it acquired the lock: the vectors of
                  \* the Keyspace, or the entries of the registry
  added,          \* the thread's last addVector that returned: what it found, added
                  \* and left
  created         \* the thread's last createKeyspace: its arguments, the Keyspace it
                  \* constructed, and the registry it found

ksVars == <<vectors, dimension, mtx>>
thVars == <<pc, ks, vec, vecs, index, endp, nearest_idx, min_distance, status, ret, calls>>
storeVars == <<keyspace_name, kstate, keyspaces, capacity, store_mtx, held, name,
               bufcap, scalls>>
vars == <<vectors, dimension, mtx, pc, ks, vec, vecs, index, endp, nearest_idx,
          min_distance, status, ret, calls, pre, keyspace_name, kstate, keyspaces,
          capacity, store_mtx, held, name, bufcap, scalls, results, threshold,
          va, vb, added, created>>

\* What the operations on Keyspaces and on the VectorStore leave alone, but
\* for addVector's return.
restVars == <<results, threshold, va, vb, created>>

NoVector == Vector(0)

\* Sequences over S with a length in L.
SeqsOfLen(S, L) == UNION {[1 .. m -> S] : m \in L}

VectorsOfDim(d) == {v \in AllVectors : v.dimension = d}

\* ------------------------------------------------------------- std::mutex
\* A faulty variant: lock() never waits.
LockableAlways(k) == TRUE

\* mtx.lock() returns when no thread owns the mutex.
Lockable(k) == mtx[k] = NoThread

\* ------------------------------------------------------------- std::vector
\* A faulty variant: the new element is put first.
PushFront(s, e, v) == <<v>> \o SubSeq(s, 1, e)

\* push_back writes the new element at the end position and moves the end past it.
PushBack(s, e, v) == SubSeq(s, 1, e) \o <<v>>

\* A faulty variant: swap-remove, the last element takes the place of the removed one.
EraseSwap(s, i) ==
  IF i + 1 = Len(s) THEN SubSeq(s, 1, i)
  ELSE SubSeq(s, 1, i) \o <<s[Len(s)]>> \o SubSeq(s, i + 2, Len(s) - 1)

\* erase(begin() + i): the elements after position i move down by one.
Erase(s, i) == SubSeq(s, 1, i) \o SubSeq(s, i + 2, Len(s))

\* ------------------------------------------------------------- Keyspace
\* A faulty variant: no dimension check.
MismatchNever(v, k) == FALSE

\* The check of addVector l.127 and batchAddVectors l.137.
Mismatch(v, k) == getDimension(v) # dimension[k]

\* ------------------------------------------------------------- thread steps
Idle(t) == pc[t] = "idle"

\* A call ends: back to idle with its status and result; the locals are dead.
Return(t, st, r) ==
  /\ pc' = [pc EXCEPT ![t] = "idle"]
  /\ status' = [status EXCEPT ![t] = st]
  /\ ret' = [ret EXCEPT ![t] = r]
  /\ vec' = [vec EXCEPT ![t] = NoVector]
  /\ vecs' = [vecs EXCEPT ![t] = <<>>]
  /\ index' = [index EXCEPT ![t] = 0]
  /\ endp' = [endp EXCEPT ![t] = 0]
  /\ nearest_idx' = [nearest_idx EXCEPT ![t] = 0]
  /\ min_distance' = [min_distance EXCEPT ![t] = 0]
  /\ pre' = [pre EXCEPT ![t] = <<>>]

\* A call begins.
Begin(t, k, p) ==
  /\ Idle(t)
  /\ calls < MaxCalls
  /\ calls' = calls + 1
  /\ pc' = [pc EXCEPT ![t] = p]
  /\ ks' = [ks EXCEPT ![t] = k]
  /\ status' = [status EXCEPT ![t] = "running"]
  /\ ret' = [ret EXCEPT ![t] = 0]

\* addVector(vec), called.
CallAddVector(t, k, v) ==
  /\ Begin(t, k, "add_lock")
  /\ vec' = [vec EXCEPT ![t] = v]
  /\ UNCHANGED <<ksVars, vecs, index, endp, nearest_idx, min_distance, pre>>
  /\ UNCHANGED storeVars
  /\ UNCHANGED <<restVars, added>>

\* mtx.lock() of the three mutators.
LockPcs == {"add_lock", "batch_lock", "rem_lock"}

AfterLock(p) ==
  CASE p = "add_lock" -> "add_body"
    [] p = "batch_lock" -> "batch_loop"
    [] p = "rem_lock" -> "rem_body"

Lock(t) ==
  /\ pc[t] \in LockPcs
  /\ Lockable(ks[t])
  /\ mtx' = [mtx EXCEPT ![ks[t]] = t]
  /\ pc' = [pc EXCEPT ![t] = AfterLock(pc[t])]
  /\ pre' = [pre EXCEPT ![t] = vectors[ks[t]]]
  /\ UNCHANGED <<vectors, dimension, ks, vec, vecs, index, endp, nearest_idx,
                 min_distance, status, ret, calls>>
  /\ UNCHANGED storeVars
  /\ UNCHANGED <<restVars, added>>

\* mtx.lock() by the thread that owns mtx is undefined: the call hangs, or the
\* library reports the deadlock (std::system_error).
LockOwned(t) ==
  /\ pc[t] \in LockPcs
  /\ mtx[ks[t]] = t
  /\ \/ /\ pc' = [pc EXCEPT ![t] = "hung"]
        /\ UNCHANGED <<vec, vecs, index, endp, nearest_idx, min_distance, status, ret, pre>>
     \/ Return(t, "SystemError", 0)
  /\ UNCHANGED <<ksVars, ks, calls>>
  /\ UNCHANGED storeVars
  /\ UNCHANGED <<restVars, added>>

\* addVector l.127-130: the dimension check, and push_back reading the end.
AddCheck(t) ==
  /\ pc[t] = "add_body"
  /\ IF Mismatch(vec[t], ks[t])
     THEN Return(t, "DimensionMismatch", 0)
     ELSE /\ endp' = [endp EXCEPT ![t] = Len(vectors[ks[t]])]
          /\ pc' = [pc EXCEPT ![t] = "add_push"]
          /\ UNCHANGED <<vec, vecs, index, nearest_idx, min_distance, status, ret, pre>>
  /\ UNCHANGED <<ksVars, ks, calls>>
  /\ UNCHANGED storeVars
  /\ UNCHANGED <<restVars, added>>

\* addVector l.130: push_back writing the element.
AddPush(t) ==
  /\ pc[t] = "add_push"
  /\ vectors' = [vectors EXCEPT ![ks[t]] = PushBack(@, endp[t], vec[t])]
  /\ pc' = [pc EXCEPT ![t] = "add_unlock"]
  /\ UNCHANGED <<dimension, mtx, ks, vec, vecs, index, endp, nearest_idx, min_distance,
                 status, ret, calls, pre>>
  /\ UNCHANGED storeVars
  /\ UNCHANGED <<restVars, added>>

\* mtx.unlock() and the return of the three mutators.
UnlockPcs == {"add_unlock", "batch_unlock", "rem_unlock"}

Unlock(t) ==
  /\ pc[t] \in UnlockPcs
  /\ mtx' = [mtx EXCEPT ![ks[t]] = NoThread]
  /\ Return(t, "ok", 0)
  /\ added' = [added EXCEPT ![t] =
                  IF pc[t] = "add_unlock"
                  THEN [ks |-> ks[t], pre |-> pre[t], vec |-> vec[t],
                        post |-> vectors[ks[t]]]
                  ELSE @]
  /\ UNCHANGED <<vectors, dimension, ks, calls>>
  /\ UNCHANGED storeVars
  /\ UNCHANGED restVars

\* batchAddVectors(vectors), called.
CallBatchAddVectors(t, k, vs) ==
  /\ Begin(t, k, "batch_lock")
  /\ vecs' = [vecs EXCEPT ![t] = vs]
  /\ UNCHANGED <<ksVars, vec, index, endp, nearest_idx, min_distance, pre>>
  /\ UNCHANGED storeVars
  /\ UNCHANGED <<restVars, added>>

\* batchAddVectors l.136-140: the range-for over the argument (index is the 0-based
\* position in it), the dimension check of the element, push_back reading the end.
BatchCheck(t) ==
  /\ pc[t] = "batch_loop"
  /\ IF index[t] >= Len(vecs[t])
     THEN /\ pc' = [pc EXCEPT ![t] = "batch_unlock"]
          /\ UNCHANGED <<vec, vecs, index, endp, nearest_idx, min_distance, status, ret, pre>>
     ELSE IF Mismatch(vecs[t][index[t] + 1], ks[t])
     THEN Return(t, "DimensionMismatch", 0)
     ELSE /\ endp' = [endp EXCEPT ![t] = Len(vectors[ks[t]])]
          /\ pc' = [pc EXCEPT ![t] = "batch_push"]
          /\ UNCHANGED <<vec, vecs, index, nearest_idx, min_distance, status, ret, pre>>
  /\ UNCHANGED <<ksVars, ks, calls>>
  /\ UNCHANGED storeVars
  /\ UNCHANGED <<restVars, added>>

\* batchAddVectors l.140: push_back writing the element; the loop moves on.
BatchPush(t) ==
  /\ pc[t] = "batch_push"
  /\ vectors' = [vectors EXCEPT ![ks[t]] = PushBack(@, endp[t], vecs[t][index[t] + 1])]
  /\ index' = [index EXCEPT ![t] = @ + 1]
  /\ pc' = [pc EXCEPT ![t] = "batch_loop"]
  /\ UNCHANGED <<dimension, mtx, ks, vec, vecs, endp, nearest_idx, min_distance,
                 status, ret, calls, pre>>
  /\ UNCHANGED storeVars
  /\ UNCHANGED <<restVars, added>>

\* removeVector(index), called.
CallRemoveVector(t, k, i) ==
  /\ Begin(t, k, "rem_lock")
  /\ index' = [index EXCEPT ![t] = i]
  /\ UNCHANGED <<ksVars, vec, vecs, endp, nearest_idx, min_distance, pre>>
  /\ UNCHANGED storeVars
  /\ UNCHANGED <<restVars, added>>

\* removeVector l.148-151: the bounds check and the erase.
\* A faulty variant: the index one past the last element is let through.
PastEndStrict(i, s) == i > Len(s)

\* The check of removeVector and getVector (l.148, l.157): index >= vectors.size().
PastEnd(i, s) == i >= Len(s)

RemoveBody(t) ==
  /\ pc[t] = "rem_body"
  /\ IF PastEnd(index[t], vectors[ks[t]])
     THEN /\ Return(t, "OutOfRange", 0)
          /\ UNCHANGED vectors
     ELSE /\ vectors' = [vectors EXCEPT ![ks[t]] = Erase(@, index[t])]
          /\ pc' = [pc EXCEPT ![t] = "rem_unlock"]
          /\ UNCHANGED <<vec, vecs, index, endp, nearest_idx, min_distance, status, ret, pre>>
  /\ UNCHANGED <<dimension, mtx, ks, calls>>
  /\ UNCHANGED storeVars
  /\ UNCHANGED <<restVars, added>>

\* size(): one read of the vector's length, with no lock.
Size(t, k) ==
  /\ Idle(t)
  /\ calls < MaxCalls
  /\ calls' = calls + 1
  /\ ks' = [ks EXCEPT ![t] = k]
  /\ status' = [status EXCEPT ![t] = "ok"]
  /\ ret' = [ret EXCEPT ![t] = Len(vectors[k])]
  /\ UNCHANGED <<ksVars, pc, vec, vecs, index, endp, nearest_idx, min_distance, pre>>
  /\ UNCHANGED storeVars
  /\ UNCHANGED <<restVars, added>>

\* A faulty variant: a tie replaces the minimum too.
NearerOrEqual(dist, min) == dist <= min

\* findNearestNeighbor l.174: a strictly smaller distance replaces the minimum.
Nearer(dist, min) == dist < min

\* One comparison of findNearestNeighbor's scan (l.173-177; l.170 for the first
\* element): query.euclideanDistance(v) throws on unequal dimensions, else the
\* running minimum is replaced when v is strictly nearer.
Scan(t, i, v, first) ==
  IF Differs(vec[t], v)
  THEN Return(t, "DimensionMismatch", 0)
  ELSE LET dist == euclideanDistance(vec[t], v)
           better == first \/ Nearer(dist, min_distance[t])
       IN  /\ min_distance' = [min_distance EXCEPT ![t] = IF better THEN dist ELSE @]
           /\ nearest_idx' = [nearest_idx EXCEPT ![t] = IF better THEN i ELSE @]
           /\ index' = [index EXCEPT ![t] = i + 1]
           /\ pc' = [pc EXCEPT ![t] = "fnn_loop"]
           /\ UNCHANGED <<vec, vecs, endp, status, ret, pre>>

\* findNearestNeighbor(query), called, up to l.170: the empty check and the
\* distance to vectors[0]. No lock is taken.
FnnStart(t, k, q) ==
  /\ Idle(t)
  /\ calls < MaxCalls
  /\ calls' = calls + 1
  /\ ks' = [ks EXCEPT ![t] = k]
  /\ IF vectors[k] = <<>>
     THEN /\ status' = [status EXCEPT ![t] = "EmptyCollection"]
          /\ ret' = [ret EXCEPT ![t] = 0]
          /\ UNCHANGED <<pc, vec, vecs, index, endp, nearest_idx, min_distance, pre>>
     ELSE IF Differs(q, vectors[k][1])
     THEN /\ status' = [status EXCEPT ![t] = "DimensionMismatch"]
          /\ ret' = [ret EXCEPT ![t] = 0]
          /\ UNCHANGED <<pc, vec, vecs, index, endp, nearest_idx, min_distance, pre>>
     ELSE /\ status' = [status EXCEPT ![t] = "running"]
          /\ ret' = [ret EXCEPT ![t] = 0]
          /\ vec' = [vec EXCEPT ![t] = q]
          /\ min_distance' = [min_distance EXCEPT ![t] = euclideanDistance(q, vectors[k][1])]
          /\ nearest_idx' = [nearest_idx EXCEPT ![t] = 0]
          /\ index' = [index EXCEPT ![t] = 1]
          /\ pc' = [pc EXCEPT ![t] = "fnn_loop"]
          /\ UNCHANGED <<vecs, endp, pre>>
  /\ UNCHANGED ksVars
  /\ UNCHANGED storeVars
  /\ UNCHANGED <<restVars, added>>

\* findNearestNeighbor l.172: the loop condition i < vectors.size(); l.180 when it fails.
FnnLoop(t) ==
  /\ pc[t] = "fnn_loop"
  /\ IF index[t] < Len(vectors[ks[t]])
     THEN /\ pc' = [pc EXCEPT ![t] = "fnn_read"]
          /\ UNCHANGED <<vec, vecs, index, endp, nearest_idx, min_distance, status, ret, pre>>
     ELSE Return(t, "ok", nearest_idx[t])
  /\ UNCHANGED <<ksVars, ks, calls>>
  /\ UNCHANGED storeVars
  /\ UNCHANGED <<restVars, added>>

\* findNearestNeighbor l.173-177: vectors[i] is read and compared. When a concurrent
\* removeVector has shrunk the vector since the loop condition was evaluated, the
\* read is out of bounds: it yields some vector, or the thread faults.
FnnRead(t) ==
  /\ pc[t] = "fnn_read"
  /\ IF index[t] < Len(vectors[ks[t]])
     THEN Scan(t, index[t], vectors[ks[t]][index[t] + 1], FALSE)
     ELSE \/ \E g \in SomeVectors : Scan(t, index[t], g, FALSE)
          \/ Return(t, "Fault", 0)
  /\ UNCHANGED <<ksVars, ks, calls>>
  /\ UNCHANGED storeVars
  /\ UNCHANGED <<restVars, added>>

\* The thresholds findNeighborsAboveThreshold is called with, in the fixed point of
\* Similarity: none, between the similarities of distances 1 and sqrt(2), that of
\* distance 1, that of distance 0, and above every similarity.
Thresholds == {0, (Scale * 9) \div 20, Scale \div 2, Scale, Scale + 1}

\* l.196: 1.0 / (1.0 + dist), rounded down to a multiple of 1/Scale (dist is in
\* units of 1/Scale too).
Similarity(dist) == (Scale * Scale) \div (Scale + dist)

\* A faulty variant: every vector is included.
MeetsAlways(sim, th) == TRUE

\* l.198: similarity >= threshold.
Meets(sim, th) == sim >= th

\* A faulty variant: ascending.
BeforeAscending(a, b) == a[2] < b[2]

\* The comparator of l.205-207, on (index, similarity) pairs: a.second > b.second.
Before(a, b) == a[2] > b[2]

\* What std::sort guarantees of its output: no element goes before an earlier one.
Sorted(s) == \A i, j \in 1 .. Len(s) : i < j => ~Before(s[j], s[i])

\* std::sort (l.204) is not stable: it leaves the elements of s in any order that is
\* sorted. (The pairs of s differ in their index.)
Sortings(s) ==
  {r \in [1 .. Len(s) -> {s[i] : i \in 1 .. Len(s)}] :
      /\ {r[i] : i \in 1 .. Len(s)} = {s[i] : i \in 1 .. Len(s)}
      /\ Sorted(r)}

\* findNeighborsAboveThreshold(query, threshold), called, up to l.190: the empty
\* check. No lock is taken.
FnatStart(t, k, q, th) ==
  /\ Idle(t)
  /\ calls < MaxCalls
  /\ calls' = calls + 1
  /\ ks' = [ks EXCEPT ![t] = k]
  /\ ret' = [ret EXCEPT ![t] = 0]
  /\ results' = [results EXCEPT ![t] = <<>>]
  /\ IF vectors[k] = <<>>
     THEN /\ status' = [status EXCEPT ![t] = "EmptyCollection"]
          /\ UNCHANGED <<pc, vec, index, threshold>>
     ELSE /\ status' = [status EXCEPT ![t] = "running"]
          /\ vec' = [vec EXCEPT ![t] = q]
          /\ threshold' = [threshold EXCEPT ![t] = th]
          /\ index' = [index EXCEPT ![t] = 0]
          /\ pc' = [pc EXCEPT ![t] = "fnat_loop"]
  /\ UNCHANGED <<ksVars, vecs, endp, nearest_idx, min_distance, pre>>
  /\ UNCHANGED storeVars
  /\ UNCHANGED <<va, vb, added, created>>

\* findNeighborsAboveThreshold l.194: the loop condition i < vectors.size(); the
\* sort comes when it fails.
FnatLoop(t) ==
  /\ pc[t] = "fnat_loop"
  /\ pc' = [pc EXCEPT ![t] = IF index[t] < Len(vectors[ks[t]]) THEN "fnat_read"
                               ELSE "fnat_sort"]
  /\ UNCHANGED <<ksVars, ks, vec, vecs, index, endp, nearest_idx, min_distance, status,
                 ret, calls, pre>>
  /\ UNCHANGED storeVars
  /\ UNCHANGED <<restVars, added>>

\* One iteration of findNeighborsAboveThreshold on the vector v read at index i
\* (l.195-200): query.euclideanDistance(v) throws on unequal dimensions (results is
\* destroyed), else the pair is appended when the similarity meets the threshold.
Visit(t, i, v) ==
  IF Differs(vec[t], v)
  THEN /\ Return(t, "DimensionMismatch", 0)
       /\ results' = [results EXCEPT ![t] = <<>>]
       /\ threshold' = [threshold EXCEPT ![t] = 0]
  ELSE LET similarity == Similarity(euclideanDistance(vec[t], v))
       IN  /\ results' = [results EXCEPT ![t] =
                            IF Meets(similarity, threshold[t])
                            THEN Append(@, <<i, similarity>>) ELSE @]
           /\ index' = [index EXCEPT ![t] = i + 1]
           /\ pc' = [pc EXCEPT ![t] = "fnat_loop"]
           /\ UNCHANGED <<vec, vecs, endp, nearest_idx, min_distance, status, ret, pre,
                          threshold>>

\* findNeighborsAboveThreshold l.195: vectors[i] is read. When a concurrent
\* removeVector has shrunk the vector since the loop condition was evaluated, the
\* read is out of bounds: it yields some vector, or the thread faults.
FnatRead(t) ==
  /\ pc[t] = "fnat_read"
  /\ IF index[t] < Len(vectors[ks[t]])
     THEN Visit(t, index[t], vectors[ks[t]][index[t] + 1])
     ELSE \/ \E g \in SomeVectors : Visit(t, index[t], g)
          \/ /\ Return(t, "Fault", 0)
             /\ results' = [results EXCEPT ![t] = <<>>]
             /\ threshold' = [threshold EXCEPT ![t] = 0]
  /\ UNCHANGED <<ksVars, ks, calls>>
  /\ UNCHANGED storeVars
  /\ UNCHANGED <<va, vb, added, created>>

\* findNeighborsAboveThreshold l.204-211: the sort, and the return of results.
FnatSort(t) ==
  /\ pc[t] = "fnat_sort"
  /\ \E r \in Sortings(results[t]) : results' = [results EXCEPT ![t] = r]
  /\ threshold' = [threshold EXCEPT ![t] = 0]
  /\ Return(t, "ok", 0)
  /\ UNCHANGED <<ksVars, ks, calls>>
  /\ UNCHANGED storeVars
  /\ UNCHANGED <<va, vb, added, created>>

\* a.m(b) for a metric m, called on the caller's Vector objects: the check of the
\* dimensions and the throw, or the value. Both are const.
CallMetric(t, m) ==
  /\ Idle(t)
  /\ calls < MaxCalls
  /\ calls' = calls + 1
  /\ IF Differs(va[t], vb[t])
     THEN /\ status' = [status EXCEPT ![t] = "DimensionMismatch"]
          /\ ret' = [ret EXCEPT ![t] = 0]
     ELSE /\ status' = [status EXCEPT ![t] = "ok"]
          /\ ret' = [ret EXCEPT ![t] =
                       CASE m = "euclideanDistance" -> euclideanDistance(va[t], vb[t])
                         [] m = "cosineSimilarity" -> cosineSimilarity(va[t], vb[t])
                         [] m = "manhattanDistance" -> manhattanDistance(va[t], vb[t])]
  /\ UNCHANGED <<ksVars, pc, ks, vec, vecs, index, endp, nearest_idx, min_distance, pre>>
  /\ UNCHANGED storeVars
  /\ UNCHANGED <<restVars, added>>

\* The check of operator[] (l.31, l.38): index >= dimension.
OutOfBounds(v, i) == i >= v.dimension

\* A faulty variant: the assignment reaches every component.
AssignedAll(v, i, c) == [v EXCEPT !.data = [j \in DOMAIN v.data |-> c]]

\* v[i] = c past the check: data[index], assigned through the reference returned
\* (l.34).
Assigned(v, i, c) == [v EXCEPT !.data[i + 1] = c]

\* A faulty variant: the element the thread's last addVector stored is the object
\* the caller passed, not a copy of it.
AliasedLastAdded(t, k, j) ==
  /\ added[t].vec # NoVector
  /\ added[t].ks = k
  /\ j = Len(added[t].pre) + 1

\* Element j of Keyspace k is the caller's Vector object itself. It never is:
\* vectors is a std::vector<Vector> (l.98) and push_back(vec) (l.130, l.140)
\* copy-constructs its element (l.24) from the const reference it is passed.
Aliased(t, k, j) == FALSE

\* x = v[i], called on the caller's Vector object (the const operator[], l.37-42).
CallGet(t, i) ==
  /\ Idle(t)
  /\ calls < MaxCalls
  /\ calls' = calls + 1
  /\ IF OutOfBounds(va[t], i)
     THEN /\ status' = [status EXCEPT ![t] = "OutOfRange"]
          /\ ret' = [ret EXCEPT ![t] = 0]
     ELSE /\ status' = [status EXCEPT ![t] = "ok"]
          /\ ret' = [ret EXCEPT ![t] = va[t].data[i + 1]]
  /\ UNCHANGED <<ksVars, pc, ks, vec, vecs, index, endp, nearest_idx, min_distance, pre>>
  /\ UNCHANGED storeVars
  /\ UNCHANGED <<restVars, added>>

\* v[i] = c, called on the caller's Vector object (operator[], l.30-35): the
\* component is assigned in that object, and in no element of a Keyspace but one
\* that is that object.
CallSet(t, i, c) ==
  /\ Idle(t)
  /\ calls < MaxCalls
  /\ calls' = calls + 1
  /\ ret' = [ret EXCEPT ![t] = 0]
  /\ IF OutOfBounds(va[t], i)
     THEN /\ status' = [status EXCEPT ![t] = "OutOfRange"]
          /\ UNCHANGED <<va, vectors>>
     ELSE /\ status' = [status EXCEPT ![t] = "ok"]
          /\ va' = [va EXCEPT ![t] = Assigned(@, i, c)]
          /\ vectors' = [k \in KeyspaceIds |->
                           [j \in 1 .. Len(vectors[k]) |->
                              IF Aliased(t, k, j) THEN Assigned(vectors[k][j], i, c)
                              ELSE vectors[k][j]]]
  /\ UNCHANGED <<dimension, mtx, pc, ks, vec, vecs, index, endp, nearest_idx,
                 min_distance, pre>>
  /\ UNCHANGED storeVars
  /\ UNCHANGED <<results, threshold, vb, created, added>>

\* ------------------------------------------------------------- shared_ptr
Range(s) == {s[i] : i \in 1 .. Len(s)}

\* A faulty variant: the registry is the only owner of a Keyspace.
OwnedByRegistry(k, reg, hld) == k \in Range(reg)

\* use_count() > 0: a shared_ptr in the registry or in a thread's hands owns k.
Owned(k, reg, hld) == k \in Range(reg) \/ \E t \in Threads : k \in hld[t]

\* The shared_ptrs left are reg and hld: a Keyspace no shared_ptr owns any more is
\* destroyed (~Keyspace, l.108), and its vectors with it.
Sweep(reg, hld) ==
  /\ kstate' = [k \in KeyspaceIds |->
                  IF kstate[k] = "alive" /\ ~Owned(k, reg, hld) THEN "destroyed"
                  ELSE kstate[k]]
  /\ vectors' = [k \in KeyspaceIds |->
                  IF kstate[k] = "alive" /\ ~Owned(k, reg, hld) THEN <<>>
                  ELSE vectors[k]]

\* ------------------------------------------------------------- VectorStore
\* std::make_shared<Keyspace>(dim, name) (main.cpp l.24): the next object is
\* constructed, empty, and the caller holds the shared_ptr.
MakeKeyspace(t, d, n) ==
  /\ Idle(t)
  /\ \E k \in KeyspaceIds :
       /\ kstate[k] = "unborn"
       /\ \A j \in KeyspaceIds : j < k => kstate[j] # "unborn"
       /\ kstate' = [kstate EXCEPT ![k] = "alive"]
       /\ dimension' = [dimension EXCEPT ![k] = d]
       /\ keyspace_name' = [keyspace_name EXCEPT ![k] = n]
       /\ held' = [held EXCEPT ![t] = @ \cup {k}]
  /\ UNCHANGED <<vectors, mtx, thVars, pre, keyspaces, capacity, store_mtx, name,
                 bufcap, scalls>>
  /\ UNCHANGED <<restVars, added>>

\* A thread lets go of a shared_ptr it holds (the variable goes out of scope).
Release(t, k) ==
  /\ Idle(t)
  /\ k \in held[t]
  /\ held' = [held EXCEPT ![t] = @ \ {k}]
  /\ Sweep(keyspaces, held')
  /\ UNCHANGED <<dimension, mtx, thVars, pre, keyspace_name, keyspaces, capacity,
                 store_mtx, name, bufcap, scalls>>
  /\ UNCHANGED <<restVars, added>>

\* A call on the VectorStore begins.
StoreBegin(t, p) ==
  /\ Idle(t)
  /\ scalls + calls < MaxStoreCalls
  /\ scalls' = scalls + 1
  /\ pc' = [pc EXCEPT ![t] = p]
  /\ status' = [status EXCEPT ![t] = "running"]
  /\ ret' = [ret EXCEPT ![t] = 0]

\* addKeyspace(keyspace), called with a shared_ptr the thread holds.
CallAddKeyspace(t, k) ==
  /\ k \in held[t]
  /\ StoreBegin(t, "addks_lock")
  /\ ks' = [ks EXCEPT ![t] = k]
  /\ UNCHANGED <<ksVars, vec, vecs, index, endp, nearest_idx, min_distance, calls, pre,
                 keyspace_name, kstate, keyspaces, capacity, store_mtx, held, name, bufcap>>
  /\ UNCHANGED <<restVars, added>>

\* removeKeyspace(name), called.
CallRemoveKeyspace(t, n) ==
  /\ StoreBegin(t, "rmks_lock")
  /\ name' = [name EXCEPT ![t] = n]
  /\ UNCHANGED <<ksVars, ks, vec, vecs, index, endp, nearest_idx, min_distance, calls,
                 pre, keyspace_name, kstate, keyspaces, capacity, store_mtx, held, bufcap>>
  /\ UNCHANGED <<restVars, added>>

\* mtx.lock() of addKeyspace and removeKeyspace.
StoreLockPcs == {"addks_lock", "rmks_lock"}

\* A faulty variant: the VectorStore and its Keyspaces share one mutex.
StoreLockShared(t) ==
  /\ pc[t] \in StoreLockPcs
  /\ store_mtx = NoThread
  /\ \A k \in KeyspaceIds : mtx[k] = NoThread
  /\ store_mtx' = t
  /\ pc' = [pc EXCEPT ![t] = IF pc[t] = "addks_lock" THEN "addks_body" ELSE "rmks_body"]
  /\ pre' = [pre EXCEPT ![t] = keyspaces]
  /\ UNCHANGED <<ksVars, ks, vec, vecs, index, endp, nearest_idx, min_distance, status,
                 ret, calls, keyspace_name, kstate, keyspaces, capacity, held, name,
                 bufcap, scalls>>
  /\ UNCHANGED <<restVars, added>>

\* mtx.lock() of addKeyspace (l.226) and removeKeyspace (l.233).
StoreLock(t) ==
  /\ pc[t] \in StoreLockPcs
  /\ store_mtx = NoThread
  /\ store_mtx' = t
  /\ pc' = [pc EXCEPT ![t] = IF pc[t] = "addks_lock" THEN "addks_body" ELSE "rmks_body"]
  /\ pre' = [pre EXCEPT ![t] = keyspaces]
  /\ UNCHANGED <<ksVars, ks, vec, vecs, index, endp, nearest_idx, min_distance, status,
                 ret, calls, keyspace_name, kstate, keyspaces, capacity, held, name,
                 bufcap, scalls>>
  /\ UNCHANGED <<restVars, added>>

\* The capacity after a push_back onto a full buffer (it is reallocated, doubled).
Grown(c) == IF c = 0 THEN 1 ELSE 2 * c

\* What addKeyspace leaves alone.
AddKeyspaceFrame(t) ==
  /\ capacity' = IF Len(keyspaces') > capacity THEN Grown(capacity) ELSE capacity
  /\ pc' = [pc EXCEPT ![t] = "store_unlock"]
  /\ UNCHANGED <<ksVars, ks, vec, vecs, index, endp, nearest_idx, min_distance, status,
                 ret, calls, pre, keyspace_name, kstate, store_mtx, held, name, bufcap,
                 scalls>>
  /\ UNCHANGED <<restVars, added>>

\* A faulty variant: the Keyspace is put first.
AddKeyspaceBodyFront(t) ==
  /\ pc[t] = "addks_body"
  /\ keyspaces' = <<ks[t]>> \o keyspaces
  /\ AddKeyspaceFrame(t)

\* addKeyspace l.227: keyspaces.push_back(keyspace); the registry now owns it too.
AddKeyspaceBody(t) ==
  /\ pc[t] = "addks_body"
  /\ keyspaces' = Append(keyspaces, ks[t])
  /\ AddKeyspaceFrame(t)

\* A faulty variant: only the first entry whose Keyspace is named n is removed.
RECURSIVE RemoveFirstNamed(_, _)
RemoveFirstNamed(reg, n) ==
  IF reg = <<>> THEN <<>>
  ELSE IF keyspace_name[Head(reg)] = n THEN Tail(reg)
  ELSE <<Head(reg)>> \o RemoveFirstNamed(Tail(reg), n)

\* std::remove_if with erase (l.234-241): the entries whose Keyspace is not named n,
\* in their order.
RECURSIVE RemoveNamed(_, _)
RemoveNamed(reg, n) ==
  IF reg = <<>> THEN <<>>
  ELSE IF keyspace_name[Head(reg)] = n THEN RemoveNamed(Tail(reg), n)
  ELSE <<Head(reg)>> \o RemoveNamed(Tail(reg), n)

\* removeKeyspace l.234-241: the matching entries are erased, their shared_ptrs
\* destroyed.
RemoveKeyspaceBody(t) ==
  /\ pc[t] = "rmks_body"
  /\ keyspaces' = RemoveNamed(keyspaces, name[t])
  /\ Sweep(keyspaces', held)
  /\ pc' = [pc EXCEPT ![t] = "store_unlock"]
  /\ UNCHANGED <<dimension, mtx, ks, vec, vecs, index, endp, nearest_idx, min_distance,
                 status, ret, calls, pre, keyspace_name, capacity, store_mtx, held, name,
                 bufcap, scalls>>
  /\ UNCHANGED <<restVars, added>>

\* mtx.unlock() of addKeyspace (l.229) and removeKeyspace (l.243), and the return.
StoreUnlock(t) ==
  /\ pc[t] = "store_unlock"
  /\ store_mtx' = NoThread
  /\ Return(t, "ok", 0)
  /\ name' = [name EXCEPT ![t] = NoName]
  /\ UNCHANGED <<ksVars, ks, calls, keyspace_name, kstate, keyspaces, capacity, held,
                 bufcap, scalls>>
  /\ UNCHANGED <<restVars, added>>

\* getKeyspace(name), called: the range-for takes begin() and end() of keyspaces
\* (l.247). No lock is taken.
GetKeyspaceStart(t, n) ==
  /\ StoreBegin(t, "get_loop")
  /\ name' = [name EXCEPT ![t] = n]
  /\ index' = [index EXCEPT ![t] = 0]
  /\ endp' = [endp EXCEPT ![t] = Len(keyspaces)]
  /\ bufcap' = [bufcap EXCEPT ![t] = capacity]
  /\ UNCHANGED <<ksVars, ks, vec, vecs, nearest_idx, min_distance, calls, pre,
                 keyspace_name, kstate, keyspaces, capacity, store_mtx, held>>
  /\ UNCHANGED <<restVars, added>>

\* A faulty variant: getKeyspace never throws, it returns a null pointer.
GetKeyspaceReturnNull(t, st, k, h) ==
  /\ Return(t, "ok", k)
  /\ name' = [name EXCEPT ![t] = NoName]
  /\ bufcap' = [bufcap EXCEPT ![t] = 0]
  /\ held' = [held EXCEPT ![t] = @ \cup h]

\* getKeyspace returns or throws.
GetKeyspaceReturn(t, st, k, h) ==
  /\ Return(t, st, k)
  /\ name' = [name EXCEPT ![t] = NoName]
  /\ bufcap' = [bufcap EXCEPT ![t] = 0]
  /\ held' = [held EXCEPT ![t] = @ \cup h]

\* A faulty variant: a match is passed over while a later entry matches too (the
\* last match is returned).
GetKeyspaceCompareLast(t, k) ==
  IF /\ keyspace_name[k] = name[t]
     /\ ~\E j \in index[t] + 2 .. Len(keyspaces) : keyspace_name[keyspaces[j]] = name[t]
  THEN GetKeyspaceReturn(t, "ok", k, {k})
  ELSE /\ index' = [index EXCEPT ![t] = @ + 1]
       /\ UNCHANGED <<pc, vec, vecs, endp, nearest_idx, min_distance, status, ret, pre,
                      name, bufcap, held>>

\* One iteration of getKeyspace's loop on an entry that owns Keyspace k (l.248-250).
GetKeyspaceCompare(t, k) ==
  IF keyspace_name[k] = name[t]
  THEN GetKeyspaceReturn(t, "ok", k, {k})
  ELSE /\ index' = [index EXCEPT ![t] = @ + 1]
       /\ UNCHANGED <<pc, vec, vecs, endp, nearest_idx, min_distance, status, ret, pre,
                      name, bufcap, held>>

\* getKeyspace l.247-253. The iterators are those taken at the start: when keyspaces
\* has been reallocated or has shrunk below the entry since, the entry read is no
\* element of keyspaces any more. The read then yields a pointer to some Keyspace
\* that is still alive, or the thread faults or is handed a pointer to no Keyspace.
GetKeyspaceLoop(t) ==
  /\ pc[t] = "get_loop"
  /\ IF index[t] = endp[t]
     THEN GetKeyspaceReturn(t, "NotFound", 0, {})
     ELSE IF bufcap[t] = capacity /\ index[t] < Len(keyspaces)
     THEN GetKeyspaceCompare(t, keyspaces[index[t] + 1])
     ELSE \/ \E g \in KeyspaceIds : kstate[g] = "alive" /\ GetKeyspaceCompare(t, g)
          \/ GetKeyspaceReturn(t, "Fault", 0, {})
          \/ GetKeyspaceReturn(t, "Garbage", 0, {})
  /\ UNCHANGED <<ksVars, ks, calls, keyspace_name, kstate, keyspaces, capacity,
                 store_mtx, scalls>>
  /\ UNCHANGED <<restVars, added>>

\* createKeyspace(dimension, name): a Keyspace is constructed as by
\* std::make_shared<Keyspace>(dimension, name) and registered as by addKeyspace,
\* whose steps follow; the caller is returned the shared_ptr.
CallCreateKeyspace(t, d, n) ==
  /\ StoreBegin(t, "addks_lock")
  /\ \E k \in KeyspaceIds :
       /\ kstate[k] = "unborn"
       /\ \A j \in KeyspaceIds : j < k => kstate[j] # "unborn"
       /\ kstate' = [kstate EXCEPT ![k] = "alive"]
       /\ dimension' = [dimension EXCEPT ![k] = d]
       /\ keyspace_name' = [keyspace_name EXCEPT ![k] = n]
       /\ held' = [held EXCEPT ![t] = @ \cup {k}]
       /\ ks' = [ks EXCEPT ![t] = k]
       /\ created' = [created EXCEPT ![t] =
                         [ks |-> k, dim |-> d, name |-> n, pre |-> keyspaces]]
  /\ UNCHANGED <<vectors, mtx, vec, vecs, index, endp, nearest_idx, min_distance, calls,
                 pre, keyspaces, capacity, store_mtx, name, bufcap>>
  /\ UNCHANGED <<results, threshold, va, vb, added>>

ThreadStep(t) ==
  \/ \E v \in SomeVectors : CallAddVector(t, K0, v)
  \/ \E vs \in SeqsOfLen(SomeVectors, BatchLens) : CallBatchAddVectors(t, K0, vs)
  \/ \E i \in 0 .. MaxIndex : CallRemoveVector(t, K0, i)
  \/ Size(t, K0)
  \/ \E q \in SomeVectors : FnnStart(t, K0, q)
  \/ FnnLoop(t)
  \/ FnnRead(t)
  \/ Lock(t)
  \/ LockOwned(t)
  \/ AddCheck(t)
  \/ AddPush(t)
  \/ BatchCheck(t)
  \/ BatchPush(t)
  \/ RemoveBody(t)
  \/ Unlock(t)

\* No addVector of the thread has returned yet.
NoAdd == [ks |-> K0, pre |-> <<>>, vec |-> NoVector, post |-> <<>>]

\* The thread has not called createKeyspace yet.
NoCreate == [ks |-> 0, dim |-> 0, name |-> NoName, pre |-> <<>>]

\* The caller has built no Vector objects of its own.
CallerInit ==
  /\ va = [t \in Threads |-> NoVector]
  /\ vb = [t \in Threads |-> NoVector]

ThreadsInit ==
  /\ pc = [t \in Threads |-> "idle"]
  /\ ks = [t \in Threads |-> K0]
  /\ vec = [t \in Threads |-> NoVector]
  /\ vecs = [t \in Threads |-> <<>>]
  /\ index = [t \in Threads |-> 0]
  /\ endp = [t \in Threads |-> 0]
  /\ nearest_idx = [t \in Threads |-> 0]
  /\ min_distance = [t \in Threads |-> 0]
  /\ status = [t \in Threads |-> "none"]
  /\ ret = [t \in Threads |-> 0]
  /\ calls = 0
  /\ pre = [t \in Threads |-> <<>>]
  /\ added = [t \in Threads |-> NoAdd]
  /\ created = [t \in Threads |-> NoCreate]
  /\ results = [t \in Threads |-> <<>>]
  /\ threshold = [t \in Threads |-> 0]

\* No VectorStore is used: its registry stays empty.
StoreInit ==
  /\ keyspaces = <<>>
  /\ capacity = 0
  /\ store_mtx = NoThread
  /\ name = [t \in Threads |-> NoName]
  /\ bufcap = [t \in Threads |-> 0]
  /\ scalls = 0

\* Keyspace K0 has been constructed (Keyspace(d, "a"), l.103) and every thread holds
\* a shared_ptr to it.
KeyspaceInit ==
  /\ \E d \in Dims : dimension = [k \in KeyspaceIds |-> IF k = K0 THEN d ELSE 0]
  /\ keyspace_name = [k \in KeyspaceIds |-> IF k = K0 THEN "a" ELSE NoName]
  /\ kstate = [k \in KeyspaceIds |-> IF k = K0 THEN "alive" ELSE "unborn"]
  /\ mtx = [k \in KeyspaceIds |-> NoThread]
  /\ held = [t \in Threads |-> {K0}]

Init ==
  /\ KeyspaceInit
  /\ vectors = [k \in KeyspaceIds |-> <<>>]
  /\ StoreInit
  /\ ThreadsInit
  /\ CallerInit


\* ------------------------------------------------------------- specifications
Next == \E t \in Threads : ThreadStep(t)

\* Threads calling into one Keyspace, in every interleaving.
Spec == Init /\ [][Next]_vars

\* A call once made keeps running: every step of a call in progress is taken when
\* it stays possible (the scheduler is fair). Making a call is up to the caller.
Progress(t) ==
  \/ Lock(t)
  \/ LockOwned(t)
  \/ AddCheck(t)
  \/ AddPush(t)
  \/ BatchCheck(t)
  \/ BatchPush(t)
  \/ RemoveBody(t)
  \/ Unlock(t)
  \/ FnnLoop(t)
  \/ FnnRead(t)

FairSpec == Init /\ [][Next]_vars /\ \A t \in Threads : WF_vars(Progress(t))

\* The threads only call addVector, with vectors of the Keyspace's dimension.
AddStep(t) ==
  \/ \E v \in VectorsOfDim(dimension[K0]) \cap SomeVectors : CallAddVector(t, K0, v)
  \/ Lock(t)
  \/ AddCheck(t)
  \/ AddPush(t)
  \/ Unlock(t)

NextAdd == \E t \in Threads : AddStep(t)

SpecAdd == Init /\ [][NextAdd]_vars

\* One thread querying a Keyspace that holds any vectors of its dimension.
InitQuery ==
  /\ KeyspaceInit
  /\ \E vs \in SeqsOfLen(VectorsOfDim(dimension[K0]), 0 .. MaxStored) :
        vectors = [k \in KeyspaceIds |-> IF k = K0 THEN vs ELSE <<>>]
  /\ StoreInit
  /\ ThreadsInit
  /\ CallerInit

QueryStep(t) ==
  \/ \E q \in AllVectors : FnnStart(t, K0, q)
  \/ FnnLoop(t)
  \/ FnnRead(t)
  \/ \E q \in AllVectors, th \in Thresholds : FnatStart(t, K0, q, th)
  \/ FnatLoop(t)
  \/ FnatRead(t)
  \/ FnatSort(t)

NextQuery == QueryStep(1)

SpecQuery == InitQuery /\ [][NextQuery]_vars

\* Threads sharing a VectorStore: they construct Keyspaces, register, look up and
\* remove them, let go of them, and call into the ones they hold.
InitStore ==
  /\ dimension = [k \in KeyspaceIds |-> 0]
  /\ keyspace_name = [k \in KeyspaceIds |-> NoName]
  /\ kstate = [k \in KeyspaceIds |-> "unborn"]
  /\ mtx = [k \in KeyspaceIds |-> NoThread]
  /\ held = [t \in Threads |-> {}]
  /\ vectors = [k \in KeyspaceIds |-> <<>>]
  /\ StoreInit
  /\ ThreadsInit
  /\ CallerInit

\* addVector called through a shared_ptr the thread holds.
HeldAddVector(t, k, v) ==
  /\ scalls + calls < MaxStoreCalls
  /\ CallAddVector(t, k, v)

\* A thread sharing a VectorStore constructs one of the objects of StoreObjects.
StoreMakeKeyspace(t, d, n) ==
  /\ \E k \in StoreObjects : kstate[k] = "unborn"
  /\ MakeKeyspace(t, d, n)

StoreStep(t) ==
  \/ \E d \in Dims, n \in Names : StoreMakeKeyspace(t, d, n)
  \/ \E k \in KeyspaceIds : Release(t, k)
  \/ \E k \in KeyspaceIds : CallAddKeyspace(t, k)
  \/ \E n \in Names : CallRemoveKeyspace(t, n)
  \/ \E n \in Names : GetKeyspaceStart(t, n)
  \/ StoreLock(t)
  \/ AddKeyspaceBody(t)
  \/ RemoveKeyspaceBody(t)
  \/ StoreUnlock(t)
  \/ GetKeyspaceLoop(t)
  \/ \E k \in held[t], d \in Dims : HeldAddVector(t, k, Vector(d))
  \/ Lock(t)
  \/ LockOwned(t)
  \/ AddCheck(t)
  \/ AddPush(t)
  \/ Unlock(t)

NextStore == \E t \in Threads : StoreStep(t)

SpecStore == InitStore /\ [][NextStore]_vars

\* The capacity of a std::vector after n push_backs.
RECURSIVE CapacityAfter(_)
CapacityAfter(n) ==
  IF n = 0 THEN 0
  ELSE IF n - 1 = CapacityAfter(n - 1) THEN Grown(CapacityAfter(n - 1))
  ELSE CapacityAfter(n - 1)

\* One thread using a VectorStore that holds any Keyspaces: the first objects have
\* been constructed, with any names, and registered in any order, some more than
\* once; only the registry owns them.
InitRegistry ==
  /\ \E alive \in {1 .. m : m \in 0 .. Cardinality(KeyspaceIds)} :
       /\ kstate = [k \in KeyspaceIds |-> IF k \in alive THEN "alive" ELSE "unborn"]
       /\ \E d \in Dims :
            dimension = [k \in KeyspaceIds |-> IF k \in alive THEN d ELSE 0]
       /\ \E names \in [alive -> Names] :
            keyspace_name = [k \in KeyspaceIds |-> IF k \in alive THEN names[k] ELSE NoName]
       /\ \E reg \in SeqsOfLen(alive, 0 .. MaxRegistered) :
            /\ Range(reg) = alive
            /\ keyspaces = reg
            /\ capacity = CapacityAfter(Len(reg))
  /\ mtx = [k \in KeyspaceIds |-> NoThread]
  /\ held = [t \in Threads |-> {}]
  /\ vectors = [k \in KeyspaceIds |-> <<>>]
  /\ store_mtx = NoThread
  /\ name = [t \in Threads |-> NoName]
  /\ bufcap = [t \in Threads |-> 0]
  /\ scalls = 0
  /\ ThreadsInit
  /\ CallerInit

RegistryStep(t) ==
  \/ \E k \in KeyspaceIds : CallAddKeyspace(t, k)
  \/ \E n \in Names : CallRemoveKeyspace(t, n)
  \/ \E n \in Names : GetKeyspaceStart(t, n)
  \/ \E d \in Dims, n \in Names : CallCreateKeyspace(t, d, n)
  \/ StoreLock(t)
  \/ AddKeyspaceBody(t)
  \/ RemoveKeyspaceBody(t)
  \/ StoreUnlock(t)
  \/ GetKeyspaceLoop(t)

NextRegistry == RegistryStep(1)

SpecRegistry == InitRegistry /\ [][NextRegistry]_vars

\* One thread adding to and removing from a Keyspace that holds any vectors of its
\* dimension.
MutateStep(t) ==
  \/ \E v \in AllVectors : CallAddVector(t, K0, v)
  \/ \E i \in 0 .. MaxStored : CallRemoveVector(t, K0, i)
  \/ Lock(t)
  \/ LockOwned(t)
  \/ AddCheck(t)
  \/ AddPush(t)
  \/ RemoveBody(t)
  \/ Unlock(t)

NextMutate == MutateStep(1)

SpecMutate == InitQuery /\ [][NextMutate]_vars

\* Two threads that hold two Keyspaces and share a VectorStore: they add vectors to
\* the Keyspaces, and register and remove them.
InitLocks ==
  /\ \E d \in Dims : dimension = [k \in KeyspaceIds |-> IF k \in StoreObjects THEN d ELSE 0]
  /\ keyspace_name = [k \in KeyspaceIds |-> IF k \in StoreObjects THEN "a" ELSE NoName]
  /\ kstate = [k \in KeyspaceIds |-> IF k \in StoreObjects THEN "alive" ELSE "unborn"]
  /\ mtx = [k \in KeyspaceIds |-> NoThread]
  /\ held = [t \in Threads |-> StoreObjects]
  /\ vectors = [k \in KeyspaceIds |-> <<>>]
  /\ StoreInit
  /\ ThreadsInit
  /\ CallerInit

LocksStep(t) ==
  \/ \E k \in held[t], d \in Dims : HeldAddVector(t, k, Vector(d))
  \/ \E k \in KeyspaceIds : CallAddKeyspace(t, k)
  \/ \E n \in Names : CallRemoveKeyspace(t, n)
  \/ Lock(t)
  \/ LockOwned(t)
  \/ AddCheck(t)
  \/ AddPush(t)
  \/ Unlock(t)
  \/ StoreLock(t)
  \/ AddKeyspaceBody(t)
  \/ RemoveKeyspaceBody(t)
  \/ StoreUnlock(t)

NextLocks == \E t \in Threads : LocksStep(t)

\* The steps of a call on the VectorStore that is in progress.
StoreProgress(t) ==
  \/ StoreLock(t)
  \/ AddKeyspaceBody(t)
  \/ RemoveKeyspaceBody(t)
  \/ StoreUnlock(t)

\* A call once made keeps running, on a Keyspace and on the VectorStore.
FairLocks ==
  /\ InitLocks
  /\ [][NextLocks]_vars
  /\ \A t \in Threads : WF_vars(Progress(t)) /\ WF_vars(StoreProgress(t))

\* One thread that has built two Vector objects, of any dimensions and components,
\* and calls the metrics on them.
InitMetric ==
  /\ KeyspaceInit
  /\ vectors = [k \in KeyspaceIds |-> <<>>]
  /\ StoreInit
  /\ ThreadsInit
  /\ \E a, b \in AllVectors :
       /\ va = [t \in Threads |-> IF t = 1 THEN a ELSE NoVector]
       /\ vb = [t \in Threads |-> IF t = 1 THEN b ELSE NoVector]

NextMetric == \E m \in Metrics : CallMetric(1, m)

SpecMetric == InitMetric /\ [][NextMetric]_vars

\* getVector(i) (l.156-161): no lock is taken; past the end it throws
\* std::runtime_error, otherwise it returns a const reference to element i, which
\* the caller can read through and cannot assign through.
GetVector(t, k, i) ==
  /\ Idle(t)
  /\ calls < MaxCalls
  /\ calls' = calls + 1
  /\ IF PastEnd(i, vectors[k])
     THEN /\ status' = [status EXCEPT ![t] = "RuntimeError"]
          /\ ret' = [ret EXCEPT ![t] = 0]
     ELSE /\ status' = [status EXCEPT ![t] = "ok"]
          /\ ret' = [ret EXCEPT ![t] = i]
  /\ UNCHANGED <<ksVars, pc, ks, vec, vecs, index, endp, nearest_idx, min_distance, pre>>
  /\ UNCHANGED storeVars
  /\ UNCHANGED <<restVars, added>>

\* addVector(v), called with the caller's Vector object.
AddOwn(t, k) == CallAddVector(t, k, va[t])

\* batchAddVectors({v, w}), called with the caller's Vector objects.
BatchOwn(t, k) == CallBatchAddVectors(t, k, <<va[t], vb[t]>>)

\* One thread that has constructed two Vector objects and a Keyspace: it reads and
\* assigns components of the first, and adds the objects to the Keyspace.
InitCaller ==
  /\ KeyspaceInit
  /\ vectors = [k \in KeyspaceIds |-> <<>>]
  /\ StoreInit
  /\ ThreadsInit
  /\ \E d, e \in Dims :
       /\ va = [t \in Threads |-> IF t = 1 THEN Vector(d) ELSE NoVector]
       /\ vb = [t \in Threads |-> IF t = 1 THEN Vector(e) ELSE NoVector]

CallerStep(t) ==
  \/ \E i \in 0 .. MaxIndex : CallGet(t, i)
  \/ \E i \in 0 .. MaxIndex, c \in Components : CallSet(t, i, c)
  \/ AddOwn(t, K0)
  \/ BatchOwn(t, K0)
  \/ \E i \in 0 .. MaxIndex : GetVector(t, K0, i)
  \/ Lock(t)
  \/ LockOwned(t)
  \/ AddCheck(t)
  \/ AddPush(t)
  \/ BatchCheck(t)
  \/ BatchPush(t)
  \/ Unlock(t)

NextCaller == CallerStep(1)

SpecCaller == InitCaller /\ [][NextCaller]_vars

\* ------------------------------------------------------------- claims
\* The thread is between lock acquisition and release of a mutator.
BodyPcs == {"add_body", "add_push", "add_unlock", "batch_loop", "batch_push",
            "batch_unlock", "rem_body", "rem_unlock"}

InBody(t) == pc[t] \in BodyPcs

AllMatch(vs, k) == \A i \in 1 .. Len(vs) : ~Mismatch(vs[i], k)

Quiescent == \A t \in Threads : Idle(t)

\* C1: every addVector, batchAddVectors or removeVector call that has reached
\* mtx.lock() eventually acquires the lock and returns or fails, whatever calls
\* came before it.
C1_LockAlwaysAcquired ==
  \A t \in Threads : (pc[t] \in LockPcs) ~> (pc[t] = "idle")

\* C2: a batchAddVectors that fails with DimensionMismatch leaves the Keyspace's
\* vectors as they were when it was called.
C2_FailedBatchInsertsNothing ==
  [][\A t \in Threads :
        (pc[t] = "batch_loop" /\ status'[t] = "DimensionMismatch")
           => vectors'[ks[t]] = pre[t]]_vars

\* C3: when the threads have concurrently made successful addVector calls on an
\* empty Keyspace and all have returned, size() is the number of calls made (no
\* update is lost) and every stored vector has the Keyspace's dimension.
C3_NoLostUpdates ==
  Quiescent =>
    /\ Len(vectors[K0]) = calls
    /\ \A i \in 1 .. Len(vectors[K0]) : getDimension(vectors[K0][i]) = dimension[K0]

C3_Witness ==
  /\ Quiescent
  /\ calls = MaxCalls
  /\ \A t \in Threads : status[t] = "ok"
  /\ Len(vectors[K0]) = MaxCalls

\* C4: size() called while a batchAddVectors of vectors that all match is inside
\* its body returns the size before the batch or the size after it.
C4_SizeSeesNoTornBatch ==
  [][\A r, m \in Threads :
        (Size(r, K0) /\ pc[m] \in {"batch_loop", "batch_push", "batch_unlock"}
           /\ ks[m] = K0 /\ AllMatch(vecs[m], K0))
        => ret'[r] \in {Len(pre[m]), Len(pre[m]) + Len(vecs[m])}]_vars

\* C5: every vector stored in a Keyspace has the Keyspace's dimension, in every
\* reachable state.
C5_StoredDimension ==
  \A k \in KeyspaceIds : \A i \in 1 .. Len(vectors[k]) :
     getDimension(vectors[k][i]) = dimension[k]

\* A failed batchAddVectors has left its matching prefix stored.
C5_Witness ==
  \E t \in Threads :
     /\ status[t] = "DimensionMismatch"
     /\ Len(vectors[K0]) >= 1

\* C6: a Keyspace a thread holds a shared_ptr to is never destroyed, and a
\* removeKeyspace by any thread leaves it as it was: its vectors, dimension, name
\* and mutex are unchanged and the calls the other threads have in progress stay
\* where they are.
C6_HeldKeyspaceSurvivesRemoval ==
  [][/\ \A t \in Threads : \A k \in held'[t] : kstate'[k] = "alive"
     /\ \A r \in Threads :
          RemoveKeyspaceBody(r) =>
             \A t \in Threads : \A k \in held[t] :
                /\ kstate'[k] = "alive"
                /\ vectors'[k] = vectors[k]
                /\ dimension'[k] = dimension[k]
                /\ keyspace_name'[k] = keyspace_name[k]
                /\ mtx'[k] = mtx[k]
                /\ t # r => pc'[t] = pc[t] /\ ks'[t] = ks[t] /\ vec'[t] = vec[t]]_vars

\* removeKeyspace has just erased the only entry of a Keyspace while another thread,
\* holding it, is inside addVector on it and its first vector is already stored.
C6_Witness ==
  \E r, t \in Threads :
     /\ pc[r] = "store_unlock"
     /\ name[r] # NoName
     /\ pc[t] = "add_unlock"
     /\ ks[t] \in held[t]
     /\ keyspace_name[ks[t]] = name[r]
     /\ ks[t] \notin Range(keyspaces)
     /\ \A u \in Threads : u # t => ks[t] \notin held[u]
     /\ Len(vectors[ks[t]]) = 1
     /\ scalls = 2

\* C7: at most one thread is inside the body of a mutator of the same Keyspace.
C7_MutualExclusion ==
  \A k \in KeyspaceIds : Cardinality({t \in Threads : InBody(t) /\ ks[t] = k}) <= 1

\* One thread is in a body while the other waits for the lock.
C7_Witness ==
  \E t, u \in Threads : InBody(t) /\ pc[u] \in LockPcs /\ ks[u] = ks[t]

\* C8: addVector of a matching vector appends it: once pushed, the vectors are
\* those found at lock acquisition followed by vec, so size() is one more, the
\* last element is vec and the elements below are unchanged.
C8_AddAppends ==
  \A t \in Threads :
     pc[t] = "add_unlock" =>
        /\ Len(vectors[ks[t]]) = Len(pre[t]) + 1
        /\ vectors[ks[t]][Len(pre[t]) + 1] = vec[t]
        /\ \A i \in 1 .. Len(pre[t]) : vectors[ks[t]][i] = pre[t][i]

C8_Witness ==
  \E t \in Threads :
     /\ pc[t] = "add_unlock"
     /\ Len(pre[t]) >= 1
     /\ vec[t] # pre[t][Len(pre[t])]

\* C9: removeVector(index) with index < size() deletes exactly the element at
\* index: the elements before it keep their positions, those after it move down
\* by one in the same order, and size() is one less.
C9_RemoveKeepsOrder ==
  \A t \in Threads :
     pc[t] = "rem_unlock" =>
        /\ Len(vectors[ks[t]]) = Len(pre[t]) - 1
        /\ \A i \in 1 .. Len(vectors[ks[t]]) :
              vectors[ks[t]][i] = IF i <= index[t] THEN pre[t][i] ELSE pre[t][i + 1]

\* An element in the middle of three is removed, the last differing from the rest.
C9_Witness ==
  \E t \in Threads :
     /\ pc[t] = "rem_unlock"
     /\ Len(pre[t]) = 3
     /\ index[t] = 1
     /\ pre[t][3] # pre[t][2]

\* The vector at C++ index i of Keyspace k.
At(k, i) == vectors[k][i + 1]

\* C10: findNearestNeighbor(query) on a non-empty Keyspace, with a query of its
\* dimension, returns an index below size() of a vector to which no stored vector is
\* strictly nearer, and the lowest index of the vectors at that distance.
C10_NearestLowestIndex ==
  [][\A t \in Threads :
        (pc[t] = "fnn_loop" /\ pc'[t] = "idle" /\ status'[t] = "ok")
        => LET k == ks[t]
               r == ret'[t]
           IN  /\ r < Len(vectors[k])
               /\ \A j \in 0 .. Len(vectors[k]) - 1 :
                     /\ euclideanDistance(vec[t], At(k, j)) >= euclideanDistance(vec[t], At(k, r))
                     /\ j < r => euclideanDistance(vec[t], At(k, j)) > euclideanDistance(vec[t], At(k, r))]_vars

\* The scan of three vectors has ended on index 1: index 0 is farther, index 2 ties.
C10_Witness ==
  \E t \in Threads :
     /\ pc[t] = "fnn_loop"
     /\ Len(vectors[ks[t]]) = 3
     /\ index[t] = 3
     /\ nearest_idx[t] = 1
     /\ euclideanDistance(vec[t], At(ks[t], 0)) > min_distance[t]
     /\ euclideanDistance(vec[t], At(ks[t], 2)) = min_distance[t]
     /\ At(ks[t], 2) # At(ks[t], 1)

\* C11: findNeighborsAboveThreshold(query, threshold) on a non-empty Keyspace, with
\* a query of its dimension, returns exactly one pair (index, similarity) for every
\* stored index whose similarity 1/(1+distance) is >= threshold, none for any other
\* index, each with the similarity of its index, and the list is ordered by
\* similarity non-increasing, which is by distance non-decreasing.
C11_ThresholdNeighbors ==
  [][\A t \in Threads :
        (pc[t] = "fnat_sort" /\ status'[t] = "ok")
        => LET k == ks[t]
               res == results'[t]
               dist(j) == euclideanDistance(vec[t], At(k, j))
               sim(j) == Similarity(dist(j))
           IN  /\ \A j \in 0 .. Len(vectors[k]) - 1 :
                     Cardinality({p \in 1 .. Len(res) : res[p][1] = j})
                        = IF sim(j) >= threshold[t] THEN 1 ELSE 0
               /\ \A p \in 1 .. Len(res) :
                     /\ res[p][1] < Len(vectors[k])
                     /\ res[p][2] = sim(res[p][1])
               /\ \A p, r \in 1 .. Len(res) :
                     p < r => /\ res[p][2] >= res[r][2]
                              /\ dist(res[p][1]) <= dist(res[r][1])]_vars

\* Of three stored vectors the call has returned two, the later one first: it is
\* the more similar.
C11_Witness ==
  \E t \in Threads :
     /\ pc[t] = "idle"
     /\ status[t] = "ok"
     /\ Len(vectors[ks[t]]) = 3
     /\ Len(results[t]) = 2
     /\ results[t][1][1] > results[t][2][1]
     /\ results[t][1][2] > results[t][2][2]

\* The thread is inside findNeighborsAboveThreshold.
FnatPcs == {"fnat_loop", "fnat_read", "fnat_sort"}

\* No vector stored in Keyspace k is similar enough to q to meet th.
NoneMeets(k, q, th) ==
  \A j \in 0 .. Len(vectors[k]) - 1 : Similarity(euclideanDistance(q, At(k, j))) < th

\* C12: on a Keyspace with no vectors findNearestNeighbor and
\* findNeighborsAboveThreshold fail with EmptyCollection, whatever the query; on a
\* Keyspace with vectors, findNeighborsAboveThreshold with a query of its dimension
\* and a threshold no vector meets does not fail and returns the empty list.
C12_EmptyCollectionOrEmptyResult ==
  [][\A t \in Threads :
        /\ ((\E q \in AllVectors : FnnStart(t, K0, q)) /\ vectors[K0] = <<>>)
              => (status'[t] = "EmptyCollection" /\ pc'[t] = "idle")
        /\ ((\E q \in AllVectors, th \in Thresholds : FnatStart(t, K0, q, th))
               /\ vectors[K0] = <<>>)
              => (status'[t] = "EmptyCollection" /\ pc'[t] = "idle" /\ results'[t] = <<>>)
        /\ (/\ pc[t] \in FnatPcs
            /\ vectors[ks[t]] # <<>>
            /\ getDimension(vec[t]) = dimension[ks[t]]
            /\ NoneMeets(ks[t], vec[t], threshold[t]))
              => /\ status'[t] \in {"running", "ok"}
                 /\ pc'[t] = "idle" => (status'[t] = "ok" /\ results'[t] = <<>>)]_vars

\* The scan of three vectors has ended with no pair: the threshold is above every
\* similarity.
C12_Witness ==
  \E t \in Threads :
     /\ pc[t] = "fnat_sort"
     /\ Len(vectors[ks[t]]) = 3
     /\ threshold[t] = Scale + 1
     /\ results[t] = <<>>

\* A Keyspace named n is registered.
Registered(n) == \E i \in 1 .. Len(keyspaces) : keyspace_name[keyspaces[i]] = n

\* The registered Keyspace named n that no registered Keyspace named n precedes.
FirstNamed(n) ==
  keyspaces[CHOOSE i \in 1 .. Len(keyspaces) :
              /\ keyspace_name[keyspaces[i]] = n
              /\ \A j \in 1 .. i - 1 : keyspace_name[keyspaces[j]] # n]

\* C13: addKeyspace makes no uniqueness check: it puts its Keyspace after the
\* entries registered, which all stay, also when the name is registered already;
\* and getKeyspace(name) returns, of the registered Keyspaces named name, the one
\* registered earliest, which is the first in the registry.
C13_FirstRegisteredWins ==
  [][\A t \in Threads :
        /\ (pc[t] = "addks_body" /\ pc'[t] # pc[t])
              => /\ Len(keyspaces') = Len(keyspaces) + 1
                 /\ keyspaces'[Len(keyspaces')] = ks[t]
                 /\ \A i \in 1 .. Len(keyspaces) : keyspaces'[i] = keyspaces[i]
        /\ (pc[t] = "get_loop" /\ pc'[t] = "idle" /\ Registered(name[t]))
              => /\ status'[t] = "ok"
                 /\ ret'[t] = FirstNamed(name[t])
                 /\ ret'[t] \in held'[t]]_vars

\* An addKeyspace has registered a Keyspace under a name that was registered, and
\* getKeyspace has passed an entry of another name and is at the first entry of
\* its name, with another Keyspace of that name registered after it.
C13_Witness ==
  \E t \in Threads :
     /\ pc[t] = "get_loop"
     /\ Len(keyspaces) > MaxRegistered
     /\ index[t] >= 1
     /\ index[t] < endp[t]
     /\ keyspace_name[keyspaces[index[t] + 1]] = name[t]
     /\ \E j \in index[t] + 2 .. Len(keyspaces) :
           /\ keyspaces[j] # keyspaces[index[t] + 1]
           /\ keyspace_name[keyspaces[j]] = name[t]

\* The Keyspace is not named n.
NotNamed(k, n) == keyspace_name[k] # n

\* C14: removeKeyspace(name) removes every entry whose Keyspace is named name, not
\* only the first, and leaves the other entries registered in their order; when
\* no entry matches the registry is as it was; and no error is raised.
C14_RemoveAllNamed ==
  \A t \in Threads :
     (pc[t] = "store_unlock" /\ name[t] # NoName) =>
        /\ \A i \in 1 .. Len(keyspaces) : keyspace_name[keyspaces[i]] # name[t]
        /\ keyspaces = SelectSeq(pre[t], LAMBDA k : NotNamed(k, name[t]))
        /\ (\A i \in 1 .. Len(pre[t]) : keyspace_name[pre[t][i]] # name[t])
              => keyspaces = pre[t]
        /\ status[t] = "running"

\* removeKeyspace found two Keyspaces of its name with one of another name between
\* them, and has left that one.
C14_Witness ==
  \E t \in Threads :
     /\ pc[t] = "store_unlock"
     /\ name[t] # NoName
     /\ Len(pre[t]) = 3
     /\ keyspace_name[pre[t][1]] = name[t]
     /\ keyspace_name[pre[t][2]] # name[t]
     /\ keyspace_name[pre[t][3]] = name[t]
     /\ pre[t][1] # pre[t][3]
     /\ keyspaces = <<pre[t][2]>>

\* C15: getKeyspace(name) fails with NotFound exactly when no registered Keyspace
\* is named name, and returns otherwise; and when removeKeyspace(name) returns no
\* registered Keyspace is named name, however many were, so that a getKeyspace(name)
\* that follows fails with NotFound.
C15_NotFoundIffUnregistered ==
  [][\A t \in Threads :
        /\ (pc[t] = "get_loop" /\ pc'[t] = "idle")
              => /\ status'[t] \in {"ok", "NotFound"}
                 /\ status'[t] = "NotFound" <=> ~Registered(name[t])
        /\ (pc[t] = "store_unlock" /\ name[t] # NoName /\ pc'[t] = "idle")
              => /\ status'[t] = "ok"
                 /\ \A i \in 1 .. Len(keyspaces') :
                       keyspace_name'[keyspaces'[i]] # name[t]]_vars

\* getKeyspace has reached the end of a registry that still has entries, after a
\* removeKeyspace of its name that removed, and so destroyed, two Keyspaces.
C15_Witness ==
  \E t \in Threads :
     /\ pc[t] = "get_loop"
     /\ index[t] = endp[t]
     /\ keyspaces # <<>>
     /\ ~Registered(name[t])
     /\ \E j, k \in KeyspaceIds :
           /\ j # k
           /\ kstate[j] = "destroyed" /\ keyspace_name[j] = name[t]
           /\ kstate[k] = "destroyed" /\ keyspace_name[k] = name[t]

C17_AddThenRemoveRestores ==
  \A t \in Threads :
     (/\ pc[t] = "rem_unlock"
      /\ added[t].vec # NoVector
      /\ added[t].ks = ks[t]
      /\ pre[t] = added[t].post
      /\ index[t] = Len(added[t].pre))
       => /\ vectors[ks[t]] = added[t].pre
          /\ Len(vectors[ks[t]]) = Len(added[t].pre)

\* The vector added to two different vectors, and differing from both, has been
\* removed again.
C17_Witness ==
  \E t \in Threads :
     /\ pc[t] = "rem_unlock"
     /\ added[t].vec # NoVector
     /\ pre[t] = added[t].post
     /\ index[t] = Len(added[t].pre)
     /\ Len(added[t].pre) = 2
     /\ added[t].pre[1] # added[t].pre[2]
     /\ added[t].vec # added[t].pre[1]
     /\ added[t].vec # added[t].pre[2]

\* C18: getKeyspace(name), also when it runs while another thread adds or removes
\* Keyspaces, ends as it would on the registry before or after the mutation: it
\* returns a Keyspace or fails with NotFound, never having read an entry that is
\* no element of the registry any more, and a Keyspace it returns is named name.
C18_GetKeyspaceAtomic ==
  [][\A t \in Threads :
        (pc[t] = "get_loop" /\ pc'[t] = "idle")
        => /\ status'[t] \in {"ok", "NotFound"}
           /\ status'[t] = "ok" => keyspace_name[ret'[t]] = name[t]]_vars

\* C19: the VectorStore and every Keyspace have a mutex of their own. So a thread
\* that is inside an operation on a Keyspace, or has left its mutex locked, blocks
\* neither addKeyspace and removeKeyspace, which always run to completion, nor an
\* operation on another Keyspace, which waits for no mutex but that Keyspace's.
C19_LockIndependence ==
  \A u \in Threads :
     /\ (pc[u] \in StoreLockPcs) ~> (pc[u] = "idle")
     /\ (pc[u] \in LockPcs) ~> (pc[u] \notin LockPcs \/ mtx[ks[u]] # NoThread)

\* A thread is inside addVector on one Keyspace while the other thread, having
\* locked the VectorStore, has done its addKeyspace or removeKeyspace.
C19_Witness ==
  \E t, u \in Threads :
     /\ InBody(t)
     /\ mtx[ks[t]] = t
     /\ pc[u] = "store_unlock"

\* C20: for Vectors a and b of unequal dimension each of euclideanDistance,
\* cosineSimilarity and manhattanDistance fails with DimensionMismatch, yields no
\* number, and leaves a and b as they were.
C20_MetricsRefuseMismatch ==
  [][\A t \in Threads : \A m \in Metrics :
        (CallMetric(t, m) /\ getDimension(va[t]) # getDimension(vb[t]))
        => /\ status'[t] = "DimensionMismatch"
           /\ ret'[t] = 0
           /\ va'[t] = va[t]
           /\ vb'[t] = vb[t]]_vars

\* A metric called on a Vector and a longer one, with components that are not zero,
\* has failed.
C20_Witness ==
  \E t \in Threads :
     /\ status[t] = "DimensionMismatch"
     /\ calls >= 1
     /\ getDimension(va[t]) < getDimension(vb[t])
     /\ \E i \in 1 .. getDimension(va[t]) : va[t].data[i] # 0 /\ vb[t].data[i] # 0

\* C21: component access is bounds-checked and keeps the shape: a get or set at
\* index >= dimension fails with OutOfRange and changes nothing; a set below the
\* dimension assigns that component and no other, a get returns it; and whatever
\* is done, the Vector keeps its dimension and has that many components.
C21_BoundsCheckedShape ==
  [][\A t \in Threads :
        /\ getDimension(va'[t]) = getDimension(va[t])
        /\ DOMAIN va'[t].data = 1 .. getDimension(va'[t])
        /\ \A i \in 0 .. MaxIndex :
              /\ (CallGet(t, i) /\ i >= getDimension(va[t]))
                    => (status'[t] = "OutOfRange" /\ va'[t] = va[t])
              /\ (CallGet(t, i) /\ i < getDimension(va[t]))
                    => (status'[t] = "ok" /\ ret'[t] = va[t].data[i + 1] /\ va'[t] = va[t])
              /\ \A c \in Components :
                    /\ (CallSet(t, i, c) /\ i >= getDimension(va[t]))
                          => (status'[t] = "OutOfRange" /\ va'[t] = va[t])
                    /\ (CallSet(t, i, c) /\ i < getDimension(va[t]))
                          => /\ status'[t] = "ok"
                             /\ va'[t].data[i + 1] = c
                             /\ \A j \in 1 .. getDimension(va[t]) :
                                   j # i + 1 => va'[t].data[j] = va[t].data[j]]_vars

\* After an assignment that made the two components of a Vector differ, an access
\* past them has failed.
C21_Witness ==
  \E t \in Threads :
     /\ status[t] = "OutOfRange"
     /\ vectors[K0] = <<>>
     /\ pc[t] = "idle"
     /\ mtx[K0] = NoThread
     /\ getDimension(va[t]) = 2
     /\ va[t].data[1] # va[t].data[2]

\* C22: removeVector(index) with index >= size(), on an empty Keyspace with any
\* index, fails with OutOfRange, and the sequence of vectors, and so its size, is
\* what the call found when it took the lock; with a smaller index it does not
\* fail.
C22_RemoveOutOfRange ==
  [][\A t \in Threads :
        RemoveBody(t)
        => IF index[t] >= Len(pre[t])
           THEN /\ status'[t] = "OutOfRange"
                /\ pc'[t] = "idle"
                /\ vectors' = vectors
                /\ vectors'[ks[t]] = pre[t]
           ELSE pc'[t] = "rem_unlock"]_vars

\* A removal at the index one past the last of two vectors has failed, and the two
\* vectors are there.
C22_Witness ==
  \E t \in Threads :
     /\ pc[t] = "idle"
     /\ status[t] = "OutOfRange"
     /\ mtx[K0] = t
     /\ Len(vectors[K0]) = 2

\* C23: addVector(vec) with a vec whose dimension is not the Keyspace's fails with
\* DimensionMismatch, and the sequence of vectors, and so its size, is what the
\* call found when it took the lock; with a vec of the Keyspace's dimension it
\* does not fail.
C23_AddMismatch ==
  [][\A t \in Threads :
        AddCheck(t)
        => IF getDimension(vec[t]) # dimension[ks[t]]
           THEN /\ status'[t] = "DimensionMismatch"
                /\ pc'[t] = "idle"
                /\ vectors' = vectors
                /\ vectors'[ks[t]] = pre[t]
           ELSE pc'[t] = "add_push"]_vars

\* After one vector was added, an addVector has failed on the dimension and the
\* one vector is there.
C23_Witness ==
  \E t \in Threads :
     /\ pc[t] = "idle"
     /\ status[t] = "DimensionMismatch"
     /\ mtx[K0] = t
     /\ calls = 2
     /\ Len(vectors[K0]) = 1

\* The query of a search in progress is not of the Keyspace's dimension.
QueryMismatch(t) == getDimension(vec[t]) # dimension[ks[t]]

\* C24: on a Keyspace that holds a vector, findNearestNeighbor(query) with a query
\* that is not of the Keyspace's dimension fails with DimensionMismatch at once and
\* returns no index; findNeighborsAboveThreshold(query, t) with such a query never
\* gets past the first stored vector, collects nothing, and ends with
\* DimensionMismatch and no list; and no step of either changes the Keyspace.
C24_SearchMismatch ==
  [][\A t \in Threads :
        /\ \A q \in AllVectors :
              (FnnStart(t, K0, q) /\ vectors[K0] # <<>> /\ getDimension(q) # dimension[K0])
              => /\ status'[t] = "DimensionMismatch"
                 /\ pc'[t] = "idle"
                 /\ ret'[t] = 0
                 /\ vectors' = vectors
        /\ (pc'[t] \in FnatPcs /\ QueryMismatch(t)')
              => /\ pc'[t] # "fnat_sort"
                 /\ index'[t] = 0
                 /\ results'[t] = <<>>
                 /\ vectors' = vectors
        /\ (pc[t] \in FnatPcs /\ QueryMismatch(t) /\ pc'[t] = "idle")
              => /\ status'[t] = "DimensionMismatch"
                 /\ results'[t] = <<>>
                 /\ vectors' = vectors]_vars

\* The second search on a Keyspace of two vectors has failed on the dimension and
\* left no list.
C24_Witness ==
  \E t \in Threads :
     /\ pc[t] = "idle"
     /\ status[t] = "DimensionMismatch"
     /\ results[t] = <<>>
     /\ calls = 2
     /\ Len(vectors[K0]) = 2

\* C25: in the list findNeighborsAboveThreshold returns, pairs of equal similarity
\* are in ascending order of index, the order in which the scan met them.
C25_TiesAscending ==
  [][\A t \in Threads :
        (pc[t] = "fnat_sort" /\ status'[t] = "ok")
        => LET res == results'[t]
           IN  \A p, r \in 1 .. Len(res) :
                  (p < r /\ res[p][2] = res[r][2]) => res[p][1] < res[r][1]]_vars

C27_BatchAtomic ==
  [][\A t \in Threads :
        /\ pc'[t] = "batch_unlock" => vectors'[ks'[t]] = pre'[t] \o vecs'[t]
        /\ (pc[t] = "batch_unlock" /\ pc'[t] = "idle")
              => /\ status'[t] = "ok"
                 /\ vectors'[ks[t]] = pre[t] \o vecs[t]]_vars

\* A batch of two vectors has been pushed behind a vector that was there, while
\* the other thread waits for the lock with a mutation of its own.
C27_Witness ==
  \E t, u \in Threads :
     /\ pc[t] = "batch_unlock"
     /\ Len(vecs[t]) = 2
     /\ Len(pre[t]) >= 1
     /\ u # t
     /\ pc[u] \in LockPcs
     /\ ks[u] = ks[t]

\* C28: for Vectors a and b of one dimension, a.euclideanDistance(b) returns what
\* b.euclideanDistance(a) returns, the sums of squares under the two roots being
\* equal, and a.euclideanDistance(a) returns 0, the sum of squares being 0.
C28_EuclideanSymmetric ==
  [][\A t \in Threads :
        (CallMetric(t, "euclideanDistance") /\ getDimension(va[t]) = getDimension(vb[t]))
        => LET n == getDimension(va[t])
           IN  /\ status'[t] = "ok"
               /\ SumSq(va[t], vb[t], n) = SumSq(vb[t], va[t], n)
               /\ ret'[t] = euclideanDistance(vb[t], va[t])
               /\ SumSq(va[t], va[t], n) = 0
               /\ va[t] = vb[t] => ret'[t] = 0
               /\ ret'[t] >= 0]_vars

\* The distance of (1, 1) and (0, 0), which no other metric returns for them, has
\* been returned.
C28_Witness ==
  \E t \in Threads :
     /\ status[t] = "ok"
     /\ calls >= 1
     /\ getDimension(va[t]) = 2
     /\ getDimension(vb[t]) = 2
     /\ va[t] # vb[t]
     /\ ret[t] = euclideanDistance(va[t], vb[t])
     /\ ret[t] > Scale
     /\ ret[t] # manhattanDistance(va[t], vb[t])
     /\ ret[t] # cosineSimilarity(va[t], vb[t])

=============================================================================
